---- MODULE Spec2Model ----
(***************************************************************************)
(* Model of the Tam Tam Studio front end:                                  *)
(*   - VideoEditor (src/src/components/studio/VideoEditor.tsx): the React  *)
(*     state of one mounted editor, the <video> element behind videoRef,   *)
(*     and the continuations of its two async handlers (split, save);      *)
(*   - Studio (src/unnamed/part_000): the upload shell with its tabs.      *)
(* Times are whole seconds.  A thumbnail is identified by the playback     *)
(* position of the frame that was drawn on the canvas.  The play/pause and *)
(* mute toggles touch neither the clip list nor the processing flag and    *)
(* are left out; the playhead is moved with the scrub bar.                 *)
(*                                                                         *)
(* Spec       : one mount of the editor (route /studio/editor).            *)
(* SpecStudio : the Studio shell - tabs, upload flow, and the file picker  *)
(*              of the editor tab.                                         *)
(***************************************************************************)
EXTENDS Integers, Sequences, FiniteSets

VARIABLES
    videoUrl,      \* useState('')   : "" or the object URL of the chosen file
    currentTime,   \* useState(0)
    duration,      \* useState(0)
    clips,         \* useState<VideoClip[]>([])
    isProcessing,  \* useState(false)
    video,         \* the <video> element videoRef points at
    splitCalls,    \* handleSplitClip invocations suspended at `await createThumbnail`
    saveTimers,    \* handleSaveChanges invocations suspended at the 2000 ms timer
    uploading,     \* Studio: useState(false)
    progress,      \* Studio: useState(0)
    location,      \* Studio: current route
    uploads,       \* Studio: uploadVideo promises not yet settled
    uploadCalls,   \* Studio: number of calls made to uploadVideo
    navigations,   \* Studio: number of navigate('/express') calls
    alerts,        \* Studio: number of failure alerts shown
    lastEvent      \* the handler that ran last

editorVars == <<videoUrl, currentTime, duration, clips, isProcessing,
                video, splitCalls, saveTimers>>
studioVars == <<uploading, progress, location, uploads, uploadCalls, navigations, alerts>>
vars == <<editorVars, studioVars, lastEvent>>

\* ---------------------------------------------------------------- bounds
MaxDuration == 3
MaxClips == 3
MaxFile == 2
MaxUploads == 4
\* how many clips are explored: one more for videos of at most 2 s, where the
\* further splits are the ones that fall on a clip boundary
ClipLimit(d) == IF d <= 2 THEN MaxClips + 1 ELSE MaxClips
\* the worked example of the specification: a 10 s video cut at 4 s, then at 7 s
ScenarioDuration == 10
ScenarioFirstSplit == 4
ScenarioSecondSplit == 7

\* ---------------------------------------------------------------- data
NoFile == 0
Files == 1..MaxFile
NoThumbnail == -1

Clip(s, e, th) == [startTime |-> s, endTime |-> e, thumbnail |-> th]

ObjectUrl(file) == "blob"

FreshVideo == [currentTime |-> 0, duration |-> 0, haveMetadata |-> FALSE,
               seeking |-> FALSE, onseeked |-> "unset"]

VideoRefCurrent == videoUrl # ""

\* mutant of FindClip: the upper end of the range is tested with <
FindClipExclusive(cs, t) ==
    LET hits == {i \in 1..Len(cs) : t >= cs[i].startTime /\ t < cs[i].endTime}
    IN  IF hits = {} THEN 0 ELSE CHOOSE i \in hits : \A j \in hits : i <= j

\* mutant of FindClip: the last match instead of the first
FindClipLast(cs, t) ==
    LET hits == {i \in 1..Len(cs) : t >= cs[i].startTime /\ t <= cs[i].endTime}
    IN  IF hits = {} THEN 0 ELSE CHOOSE i \in hits : \A j \in hits : i >= j

\* clips.find(clip => currentTime >= clip.startTime && currentTime <= clip.endTime):
\* the index of the first match, 0 for undefined.
FindClip(cs, t) ==
    LET hits == {i \in 1..Len(cs) : t >= cs[i].startTime /\ t <= cs[i].endTime}
    IN  IF hits = {} THEN 0 ELSE CHOOSE i \in hits : \A j \in hits : i <= j

\* mutants of SplitOne
SplitOneStaleStart(clip, isCurrent, t, th) ==
    IF isCurrent
    THEN << Clip(clip.startTime, t, th), Clip(clip.startTime, clip.endTime, th) >>
    ELSE << clip >>

SplitOneSwapped(clip, isCurrent, t, th) ==
    IF isCurrent
    THEN << Clip(t, clip.endTime, th), Clip(clip.startTime, t, th) >>
    ELSE << clip >>

SplitOneOneThumbnail(clip, isCurrent, t, th) ==
    IF isCurrent
    THEN << Clip(clip.startTime, t, th), Clip(t, clip.endTime, clip.thumbnail) >>
    ELSE << clip >>

\* the callback of clips.flatMap: the clip that is currentClip (object identity,
\* i.e. its position in the captured array) becomes two clips, any other one stays.
SplitOne(clip, isCurrent, t, th) ==
    IF isCurrent
    THEN << Clip(clip.startTime, t, th), Clip(t, clip.endTime, th) >>
    ELSE << clip >>

\* mutant of FlatMapFrom: currentClip is recognised by its contents, not by identity
RECURSIVE FlatMapStructural(_, _, _, _, _)
FlatMapStructural(cs, i, target, t, th) ==
    IF i > Len(cs) THEN << >>
    ELSE SplitOne(cs[i], cs[i] = cs[target], t, th)
            \o FlatMapStructural(cs, i + 1, target, t, th)

RECURSIVE FlatMapFrom(_, _, _, _, _)
FlatMapFrom(cs, i, target, t, th) ==
    IF i > Len(cs) THEN << >>
    ELSE SplitOne(cs[i], i = target, t, th) \o FlatMapFrom(cs, i + 1, target, t, th)

\* mutant of NewClips: the other clips are filtered out before the flatMap
NewClipsFiltered(call, th) ==
    FlatMapFrom(<< call.clips[call.target] >>, 1, 1, call.currentTime, th)

\* mutant of NewClips: the cut is made at the current time of the latest render
NewClipsLive(call, th) == FlatMapFrom(call.clips, 1, call.target, currentTime, th)

NewClips(call, th) == FlatMapFrom(call.clips, 1, call.target, call.currentTime, th)

\* mutant of CaptureFrame: no 2d context, nothing is encoded
CaptureFrameNothing(v) == NoThumbnail

\* canvas.toDataURL of the frame the element shows when `seeked` fires
CaptureFrame(v) == v.currentTime

\* ---------------------------------------------------------------- initial state
EditorInit ==
    /\ videoUrl = ""
    /\ currentTime = 0
    /\ duration = 0
    /\ clips = << >>
    /\ isProcessing = FALSE
    /\ video = FreshVideo
    /\ splitCalls = << >>
    /\ saveTimers = 0

StudioInit ==
    /\ uploading = FALSE
    /\ progress = 0
    /\ uploads = << >>
    /\ uploadCalls = 0
    /\ navigations = 0
    /\ alerts = 0

\* the editor tab opened directly
Init ==
    /\ EditorInit
    /\ StudioInit
    /\ location = "/studio/editor"
    /\ lastEvent = "mount"

\* the upload tab opened directly
InitStudio ==
    /\ EditorInit
    /\ StudioInit
    /\ location = "/studio"
    /\ lastEvent = "mount"

\* ---------------------------------------------------------------- VideoEditor
\* The file input is rendered only while videoUrl is empty.
\* <Route path="/editor" element={<VideoEditor />} />
EditorMounted == location = "/studio/editor"
FileInputRendered == EditorMounted /\ videoUrl = ""
\* The player, the split button and the save button are rendered otherwise.
PlayerRendered == EditorMounted /\ videoUrl # ""
\* mutant of SplitEnabled: the split button lacks disabled={isProcessing}
SplitAlwaysEnabled == PlayerRendered
SplitEnabled == PlayerRendered /\ ~isProcessing
\* mutant of SaveEnabled: the save button lacks disabled={isProcessing}
SaveAlwaysEnabled == PlayerRendered
SaveEnabled == PlayerRendered /\ ~isProcessing

\* mutant of HandleFileSelect: the full-span clip is seeded at once, from `duration`
HandleFileSelectSeeds(file) ==
    /\ FileInputRendered
    /\ lastEvent' = IF file = NoFile THEN "fileSelectEmpty" ELSE "fileSelect"
    /\ IF file # NoFile
       THEN /\ videoUrl' = ObjectUrl(file)
            /\ clips' = << Clip(0, duration, NoThumbnail) >>
            /\ video' = FreshVideo
            /\ UNCHANGED <<currentTime, duration, isProcessing,
                           splitCalls, saveTimers>>
       ELSE UNCHANGED editorVars
    /\ UNCHANGED studioVars

HandleFileSelect(file) ==
    /\ FileInputRendered
    /\ lastEvent' = IF file = NoFile THEN "fileSelectEmpty" ELSE "fileSelect"
    /\ IF file # NoFile
       THEN /\ videoUrl' = ObjectUrl(file)
            /\ clips' = << >>
            /\ video' = FreshVideo
            /\ UNCHANGED <<currentTime, duration, isProcessing,
                           splitCalls, saveTimers>>
       ELSE UNCHANGED editorVars
    /\ UNCHANGED studioVars

HandleTimeUpdate ==
    /\ PlayerRendered
    /\ lastEvent' = "timeUpdate"
    /\ IF VideoRefCurrent
       THEN currentTime' = video.currentTime
       ELSE UNCHANGED currentTime
    /\ UNCHANGED <<videoUrl, duration, clips, isProcessing, video,
                   splitCalls, saveTimers>>
    /\ UNCHANGED studioVars

\* mutant of HandleLoadedMetadata: the clip ends at the stale `duration` state
HandleLoadedMetadataStale(d) ==
    /\ PlayerRendered
    /\ ~video.haveMetadata
    /\ lastEvent' = "loadedMetadata"
    /\ video' = [video EXCEPT !.duration = d, !.haveMetadata = TRUE]
    /\ duration' = d
    /\ clips' = << Clip(0, duration, NoThumbnail) >>
    /\ UNCHANGED <<videoUrl, currentTime, isProcessing, splitCalls, saveTimers>>
    /\ UNCHANGED studioVars

\* fired once by the element for the one source it is given (src never changes
\* while the element is mounted); d is the duration of the chosen file
HandleLoadedMetadata(d) ==
    /\ PlayerRendered
    /\ ~video.haveMetadata
    /\ lastEvent' = "loadedMetadata"
    /\ video' = [video EXCEPT !.duration = d, !.haveMetadata = TRUE]
    /\ IF VideoRefCurrent
       THEN /\ duration' = d
            /\ clips' = << Clip(0, d, NoThumbnail) >>
       ELSE UNCHANGED <<duration, clips>>
    /\ UNCHANGED <<videoUrl, currentTime, isProcessing, splitCalls, saveTimers>>
    /\ UNCHANGED studioVars

\* onChange of the range input (min 0, max duration)
Scrub(x) ==
    /\ PlayerRendered
    /\ x \in 0..duration
    /\ lastEvent' = "scrub"
    /\ IF VideoRefCurrent
       THEN video' = [video EXCEPT !.currentTime = x, !.seeking = video.haveMetadata]
       ELSE UNCHANGED video
    /\ UNCHANGED <<videoUrl, currentTime, duration, clips, isProcessing,
                   splitCalls, saveTimers>>
    /\ UNCHANGED studioVars

\* createThumbnail up to the point where its promise is pending
CreateThumbnail(v, time) ==
    [v EXCEPT !.currentTime = time, !.seeking = v.haveMetadata, !.onseeked = "pending"]

\* mutant of HandleSplitClip: the list is cut at once, the thumbnail comes later
HandleSplitClipOptimistic ==
    /\ SplitEnabled
    /\ Len(clips) < ClipLimit(duration)
    /\ lastEvent' = "split"
    /\ LET target == FindClip(clips, currentTime)
       IN  IF ~VideoRefCurrent \/ Len(clips) = 0 \/ target = 0
           THEN UNCHANGED editorVars
           ELSE /\ isProcessing' = TRUE
                /\ video' = CreateThumbnail(video, currentTime)
                /\ clips' = FlatMapFrom(clips, 1, target, currentTime, NoThumbnail)
                /\ splitCalls' = Append(splitCalls,
                       [clips |-> clips, currentTime |-> currentTime, target |-> target])
                /\ UNCHANGED <<videoUrl, currentTime, duration, saveTimers>>
    /\ UNCHANGED studioVars

\* mutant of HandleSplitClip: setIsProcessing(true) moved above the early returns
HandleSplitClipEager ==
    /\ SplitEnabled
    /\ Len(clips) < ClipLimit(duration)
    /\ lastEvent' = "split"
    /\ isProcessing' = TRUE
    /\ LET target == FindClip(clips, currentTime)
       IN  IF ~VideoRefCurrent \/ Len(clips) = 0 \/ target = 0
           THEN UNCHANGED <<video, splitCalls>>
           ELSE /\ video' = CreateThumbnail(video, currentTime)
                /\ splitCalls' = Append(splitCalls,
                       [clips |-> clips, currentTime |-> currentTime, target |-> target])
    /\ UNCHANGED <<videoUrl, currentTime, duration, clips, saveTimers>>
    /\ UNCHANGED studioVars

\* Len(clips) < ClipLimit(duration) bounds the exploration; the code has no such limit
HandleSplitClip ==
    /\ SplitEnabled
    /\ Len(clips) < ClipLimit(duration)
    /\ lastEvent' = "split"
    /\ LET target == FindClip(clips, currentTime)
       IN  IF ~VideoRefCurrent \/ Len(clips) = 0 \/ target = 0
           THEN UNCHANGED editorVars
           ELSE /\ isProcessing' = TRUE
                /\ video' = CreateThumbnail(video, currentTime)
                /\ splitCalls' = Append(splitCalls,
                       [clips |-> clips, currentTime |-> currentTime, target |-> target])
                /\ UNCHANGED <<videoUrl, currentTime, duration, clips, saveTimers>>
    /\ UNCHANGED studioVars

\* mutant of Seeked: the continuation of handleSplitClip lacks setIsProcessing(false)
SeekedKeepsFlag ==
    /\ PlayerRendered
    /\ video.seeking
    /\ lastEvent' = "seeked"
    /\ IF video.onseeked = "pending"
       THEN LET call == splitCalls[Len(splitCalls)]
                thumbnail == CaptureFrame(video)
            IN  /\ clips' = NewClips(call, thumbnail)
                /\ splitCalls' = SubSeq(splitCalls, 1, Len(splitCalls) - 1)
                /\ video' = [video EXCEPT !.seeking = FALSE, !.onseeked = "resolved"]
                /\ UNCHANGED isProcessing
       ELSE /\ video' = [video EXCEPT !.seeking = FALSE]
            /\ UNCHANGED <<clips, isProcessing, splitCalls>>
    /\ UNCHANGED <<videoUrl, currentTime, duration, saveTimers>>
    /\ UNCHANGED studioVars

\* the element finishes a seek; its onseeked handler, when it belongs to a pending
\* createThumbnail, resolves the promise and the suspended handleSplitClip runs on
Seeked ==
    /\ PlayerRendered
    /\ video.seeking
    /\ lastEvent' = "seeked"
    /\ IF video.onseeked = "pending"
       THEN LET call == splitCalls[Len(splitCalls)]
                thumbnail == CaptureFrame(video)
            IN  /\ clips' = NewClips(call, thumbnail)
                /\ isProcessing' = FALSE
                /\ splitCalls' = SubSeq(splitCalls, 1, Len(splitCalls) - 1)
                /\ video' = [video EXCEPT !.seeking = FALSE, !.onseeked = "resolved"]
       ELSE /\ video' = [video EXCEPT !.seeking = FALSE]
            /\ UNCHANGED <<clips, isProcessing, splitCalls>>
    /\ UNCHANGED <<videoUrl, currentTime, duration, saveTimers>>
    /\ UNCHANGED studioVars

HandleSaveChanges ==
    /\ SaveEnabled
    /\ lastEvent' = "save"
    /\ isProcessing' = TRUE
    /\ saveTimers' = saveTimers + 1
    /\ UNCHANGED <<videoUrl, currentTime, duration, clips, video, splitCalls>>
    /\ UNCHANGED studioVars

\* mutant of SaveTimerFires: the editor is reset once the save is done
SaveTimerFiresReset ==
    /\ saveTimers > 0
    /\ lastEvent' = "saved"
    /\ saveTimers' = saveTimers - 1
    /\ isProcessing' = FALSE
    /\ clips' = << >>
    /\ currentTime' = 0
    /\ UNCHANGED <<videoUrl, duration, video, splitCalls>>
    /\ UNCHANGED studioVars

SaveTimerFires ==
    /\ saveTimers > 0
    /\ lastEvent' = "saved"
    /\ saveTimers' = saveTimers - 1
    /\ isProcessing' = FALSE
    /\ UNCHANGED <<videoUrl, currentTime, duration, clips, video, splitCalls>>
    /\ UNCHANGED studioVars

EditorNext ==
    \/ \E file \in Files \cup {NoFile} : HandleFileSelect(file)
    \/ HandleTimeUpdate
    \/ \E d \in 1..MaxDuration : HandleLoadedMetadata(d)
    \/ \E x \in 0..MaxDuration : Scrub(x)
    \/ HandleSplitClip
    \/ Seeked
    \/ HandleSaveChanges
    \/ SaveTimerFires

Spec == Init /\ [][EditorNext]_vars


\* the editor with the video and the playhead positions of the worked example
ScenarioTimes == {ScenarioFirstSplit, ScenarioSecondSplit}

ScenarioNext ==
    \/ \E file \in Files \cup {NoFile} : HandleFileSelect(file)
    \/ HandleTimeUpdate
    \/ HandleLoadedMetadata(ScenarioDuration)
    \/ \E x \in ScenarioTimes : Scrub(x)
    \/ HandleSplitClip
    \/ Seeked
    \/ HandleSaveChanges
    \/ SaveTimerFires

SpecScenario == Init /\ [][ScenarioNext]_vars

\* the same, in a browser that completes every seek it starts and fires every
\* timer that was set
SpecFair == SpecScenario /\ WF_vars(Seeked) /\ WF_vars(SaveTimerFires)

\* ---------------------------------------------------------------- Studio
TabPaths == {"/studio", "/studio/editor", "/studio/analytics", "/studio/settings"}
StudioMounted == location \in TabPaths
\* <Route path="/" ...> holds the upload input, disabled while uploading
UploadInputEnabled == location = "/studio" /\ ~uploading

\* leaving /studio/editor unmounts VideoEditor: its state is dropped and a later
\* mount starts from useState's initial values
RouteChange(path) ==
    /\ location' = path
    /\ IF EditorMounted /\ path # "/studio/editor"
       THEN /\ videoUrl' = ""
            /\ currentTime' = 0
            /\ duration' = 0
            /\ clips' = << >>
            /\ isProcessing' = FALSE
            /\ video' = FreshVideo
            /\ splitCalls' = << >>
            /\ saveTimers' = 0
       ELSE UNCHANGED editorVars

\* a click on one of the tab <Link>s
TabLink(path) ==
    /\ StudioMounted
    /\ path \in TabPaths /\ path # location
    /\ lastEvent' = "tab"
    /\ RouteChange(path)
    /\ UNCHANGED <<uploading, progress, uploads, uploadCalls, navigations, alerts>>

\* mutant of StudioHandleFileSelect: setUploading(true) moved above `if (!file) return`
StudioHandleFileSelectEager(file) ==
    /\ UploadInputEnabled
    /\ uploadCalls < MaxUploads
    /\ lastEvent' = IF file = NoFile THEN "studioFileSelectEmpty" ELSE "studioFileSelect"
    /\ uploading' = TRUE
    /\ IF file = NoFile
       THEN UNCHANGED <<uploads, uploadCalls>>
       ELSE /\ uploads' = Append(uploads, file)
            /\ uploadCalls' = uploadCalls + 1
    /\ UNCHANGED <<progress, location, navigations, alerts>>
    /\ UNCHANGED editorVars

\* uploadCalls < MaxUploads bounds the exploration; the code has no such limit
StudioHandleFileSelect(file) ==
    /\ UploadInputEnabled
    /\ uploadCalls < MaxUploads
    /\ lastEvent' = IF file = NoFile THEN "studioFileSelectEmpty" ELSE "studioFileSelect"
    /\ IF file = NoFile
       THEN UNCHANGED <<uploading, uploads, uploadCalls>>
       ELSE /\ uploading' = TRUE
            /\ uploads' = Append(uploads, file)
            /\ uploadCalls' = uploadCalls + 1
    /\ UNCHANGED <<progress, location, navigations, alerts>>
    /\ UNCHANGED editorVars

\* `finally` of Studio.handleFileSelect
UploadFinally ==
    /\ uploading' = FALSE
    /\ progress' = 0

\* uploadVideo(file) resolves: the rest of the try block, then finally
UploadResolves ==
    /\ uploads # << >>
    /\ lastEvent' = "uploaded"
    /\ uploads' = Tail(uploads)
    /\ navigations' = navigations + 1
    /\ RouteChange("/express")
    /\ UploadFinally
    /\ UNCHANGED <<uploadCalls, alerts>>

\* mutant of UploadRejects: setUploading(false) sits at the end of the try block
UploadRejectsNoFinally ==
    /\ uploads # << >>
    /\ lastEvent' = "uploadFailed"
    /\ uploads' = Tail(uploads)
    /\ alerts' = alerts + 1
    /\ UNCHANGED <<uploading, progress, location, uploadCalls, navigations>>
    /\ UNCHANGED editorVars

\* uploadVideo(file) rejects: the catch block, then finally
UploadRejects ==
    /\ uploads # << >>
    /\ lastEvent' = "uploadFailed"
    /\ uploads' = Tail(uploads)
    /\ alerts' = alerts + 1
    /\ UploadFinally
    /\ UNCHANGED <<location, uploadCalls, navigations>>
    /\ UNCHANGED editorVars

StudioNext ==
    \/ \E path \in TabPaths : TabLink(path)
    \/ \E file \in Files \cup {NoFile} : StudioHandleFileSelect(file)
    \/ UploadResolves
    \/ UploadRejects
    \/ \E file \in Files \cup {NoFile} : HandleFileSelect(file)

SpecStudio == InitStudio /\ [][StudioNext]_vars

\* ================================================================ properties
Tiled(cs, d) ==
    /\ cs[1].startTime = 0
    /\ cs[Len(cs)].endTime = d
    /\ \A i \in 1..(Len(cs) - 1) : cs[i].endTime = cs[i + 1].startTime

Boundaries(cs) == {cs[i].startTime : i \in 1..Len(cs)} \cup {cs[i].endTime : i \in 1..Len(cs)}

Bounds(clip) == <<clip.startTime, clip.endTime>>

\* a step in which a suspended handleSplitClip resumes and runs to its end
SplitCompletes == Len(splitCalls') = Len(splitCalls) - 1

\* C1: whenever the clip list is non-empty, the first clip starts at 0, the last
\* clip ends at the video duration, and each clip ends where the next one starts.
C1_Tiling == clips # << >> => Tiled(clips, duration)

C1_Witness ==
    /\ Len(clips) = 3
    /\ \A i \in 1..3 : clips[i].startTime < clips[i].endTime
    /\ lastEvent = "saved"

\* C2: right after the metadata-loaded event the duration state is the video's
\* duration D > 0 and the clip list is the single clip {0, D} without a thumbnail.
C2_Initialize ==
    lastEvent = "loadedMetadata" =>
        /\ duration = video.duration
        /\ duration > 0
        /\ clips = << [startTime |-> 0, endTime |-> video.duration,
                       thumbnail |-> NoThumbnail] >>

C2_Witness == lastEvent = "loadedMetadata" /\ duration = MaxDuration /\ Len(clips) = 1

\* C3: a split that completes at a time t strictly inside a clip {s, e} of the
\* list adds exactly one clip, puts {s, t} and {t, e} at the position of {s, e},
\* keeps the clips before and after it, and leaves the list tiling [0, duration].
C3_SplitInside ==
    [][SplitCompletes =>
        LET call == splitCalls[Len(splitCalls)]
            i == call.target
            t == call.currentTime
        IN  (clips[i].startTime < t /\ t < clips[i].endTime) =>
              /\ Len(clips') = Len(clips) + 1
              /\ Bounds(clips'[i]) = <<clips[i].startTime, t>>
              /\ Bounds(clips'[i + 1]) = <<t, clips[i].endTime>>
              /\ \A j \in 1..Len(clips) :
                    /\ j < i => clips'[j] = clips[j]
                    /\ j > i => clips'[j + 1] = clips[j]
              /\ Tiled(clips', duration')
    ]_vars

C3_Witness ==
    /\ lastEvent = "seeked"
    /\ video.onseeked = "resolved"
    /\ Len(clips) = 3
    /\ \A i \in 1..3 : clips[i].startTime < clips[i].endTime

\* C4: a completed split gives both halves the one thumbnail it captured and
\* leaves every other clip as it was, in the same order; so a 10 s video cut at 4
\* and then at 7 ends as [{0,4,thumb1},{4,7,thumb2},{7,10,thumb2}].
C4_SplitThumbnails ==
    [][SplitCompletes =>
        LET call == splitCalls[Len(splitCalls)]
            i == call.target
        IN  /\ Len(clips') = Len(clips) + 1
            /\ clips'[i].thumbnail # NoThumbnail
            /\ clips'[i + 1].thumbnail = clips'[i].thumbnail
            /\ \A j \in 1..Len(clips) :
                  /\ j < i => clips'[j] = clips[j]
                  /\ j > i => clips'[j + 1] = clips[j]
            /\ ( /\ duration = ScenarioDuration
                 /\ Len(clips) = 2
                 /\ Bounds(clips[1]) = <<0, ScenarioFirstSplit>>
                 /\ Bounds(clips[2]) = <<ScenarioFirstSplit, ScenarioDuration>>
                 /\ call.currentTime = ScenarioSecondSplit )
               => clips' = << clips[1],
                              Clip(ScenarioFirstSplit, ScenarioSecondSplit, clips'[2].thumbnail),
                              Clip(ScenarioSecondSplit, ScenarioDuration, clips'[2].thumbnail) >>
    ]_vars

C4_Witness ==
    clips = << Clip(0, ScenarioFirstSplit, ScenarioFirstSplit),
               Clip(ScenarioFirstSplit, ScenarioSecondSplit, ScenarioSecondSplit),
               Clip(ScenarioSecondSplit, ScenarioDuration, ScenarioSecondSplit) >>

\* C5: a split requested on an empty clip list, or at a time no clip's range
\* contains, changes nothing: the clip list stays, the processing flag stays
\* false, and no seek and no thumbnail capture is started.
NoClipContains(cs, t) ==
    \A i \in 1..Len(cs) : ~(cs[i].startTime <= t /\ t <= cs[i].endTime)

C5_SplitNoOp ==
    [][(lastEvent' = "split" /\ (clips = << >> \/ NoClipContains(clips, currentTime))) =>
        /\ clips' = clips
        /\ ~isProcessing'
        /\ splitCalls' = splitCalls
        /\ video' = video
    ]_vars

C5_Witness == lastEvent = "split" /\ videoUrl # "" /\ clips = << >> /\ ~isProcessing

\* C6: at most one asynchronous editor operation (a split waiting for its
\* thumbnail, or a save waiting for its timer) is outstanding at any time.
C6_OneOperation == Len(splitCalls) + saveTimers <= 1

C6_Witness ==
    /\ Len(splitCalls) = 1
    /\ isProcessing
    /\ ~SplitEnabled /\ ~SaveEnabled
    /\ lastEvent = "timeUpdate"

\* C7: the uploading flag is true while an upload is outstanding; when the upload
\* settles the flag goes from true to false, navigate is called exactly when the
\* upload resolved and the failure alert is shown exactly when it rejected, and
\* neither happens in any other step.
C7_UploadSettles ==
    [][ /\ uploads' # << >> => uploading'
        /\ IF Len(uploads') < Len(uploads)
           THEN LET resolved == lastEvent' = "uploaded"
                IN  /\ uploading /\ ~uploading'
                    /\ navigations' = navigations + (IF resolved THEN 1 ELSE 0)
                    /\ alerts' = alerts + (IF resolved THEN 0 ELSE 1)
                    /\ resolved => location' = "/express"
                    /\ ~resolved => location' = location
           ELSE navigations' = navigations /\ alerts' = alerts
    ]_vars

C7_Witness ==
    /\ alerts = 1 /\ navigations = 1
    /\ ~uploading
    /\ location = "/express"

\* C8: after the metadata has loaded no step removes or merges clips: the clip
\* count never goes down and every boundary present in the list stays in it.
C8_NoClipLost ==
    [][lastEvent' \notin {"fileSelect", "loadedMetadata"} =>
        /\ Len(clips') >= Len(clips)
        /\ Boundaries(clips) \subseteq Boundaries(clips')
    ]_vars

C8_Witness ==
    /\ Len(clips) = 3
    /\ Cardinality(Boundaries(clips)) = 4
    /\ lastEvent = "seeked"
    /\ video.onseeked = "resolved"

\* C9: starting a save sets the processing flag and finishing it clears the
\* flag; neither step changes the clip list, the duration, the current time,
\* the video source or the video element, and the flag is true in between.
C9_SaveFrame ==
    [][ /\ lastEvent' = "save" => ~isProcessing /\ isProcessing'
        /\ lastEvent' = "saved" => isProcessing /\ ~isProcessing'
        /\ lastEvent' \in {"save", "saved"} =>
              /\ clips' = clips
              /\ duration' = duration
              /\ currentTime' = currentTime
              /\ videoUrl' = videoUrl
              /\ video' = video
        /\ saveTimers' > 0 => isProcessing'
    ]_vars

C9_Witness ==
    /\ lastEvent = "saved"
    /\ ~isProcessing
    /\ Len(clips) = 2
    /\ currentTime > 0

\* C10: a file selection without a file changes nothing: in the editor the video
\* source and the clip list stay; in the Studio shell the uploading flag stays
\* false, uploadVideo is not called, and there is no navigation and no alert.
C10_NoFileNoOp ==
    [][ /\ lastEvent' = "fileSelectEmpty" =>
              videoUrl' = videoUrl /\ clips' = clips /\ video' = video
        /\ lastEvent' = "studioFileSelectEmpty" =>
              /\ ~uploading'
              /\ uploads' = uploads
              /\ uploadCalls' = uploadCalls
              /\ navigations' = navigations
              /\ alerts' = alerts
              /\ location' = location
    ]_vars

C10_Witness ==
    /\ lastEvent = "studioFileSelectEmpty"
    /\ ~uploading
    /\ uploadCalls = 1 /\ alerts = 1
    /\ videoUrl = ""

\* a step in which handleSplitClip gets as far as `await createThumbnail`
SplitStarts == Len(splitCalls') = Len(splitCalls) + 1

Contains(clip, t) == clip.startTime <= t /\ t <= clip.endTime

\* the clip a lookup at time t has to return: 0 for none
FirstContaining(cs, t) ==
    IF \E i \in 1..Len(cs) : Contains(cs[i], t)
    THEN CHOOSE i \in 1..Len(cs) :
            Contains(cs[i], t) /\ \A j \in 1..(i - 1) : ~Contains(cs[j], t)
    ELSE 0

\* C11: a lookup returns the first clip, in list order, whose inclusive range
\* contains the time, or none; and as long as no split completes (and no
\* video is loaded) the lookup gives the same answer for every time: pressing
\* split starts a split of exactly that clip, or does nothing when there is none.
C11_LocateStable ==
    [][ /\ (~SplitCompletes /\ lastEvent' \notin {"fileSelect", "loadedMetadata"}) =>
              \A t \in 0..MaxDuration : FirstContaining(clips', t) = FirstContaining(clips, t)
        /\ (lastEvent' = "split" /\ ~isProcessing /\ Len(clips) < ClipLimit(duration)) =>
              IF FirstContaining(clips, currentTime) = 0
              THEN splitCalls' = splitCalls
              ELSE /\ SplitStarts
                   /\ splitCalls'[Len(splitCalls')].target = FirstContaining(clips, currentTime)
    ]_vars

C11_Witness ==
    /\ Len(splitCalls) = 1
    /\ splitCalls[1].target = 2
    /\ splitCalls[1].currentTime = duration
    /\ lastEvent = "split"

\* C12: a split changes the clip list only when its thumbnail capture is done:
\* the step that starts it and every step while it waits leave the list as it
\* is, and the step in which the seek completes both puts in the two new clips
\* and clears the processing flag.
C12_MutateAfterCapture ==
    [][ /\ SplitStarts => clips' = clips /\ isProcessing'
        /\ (splitCalls # << >> /\ ~SplitCompletes) => clips' = clips /\ isProcessing'
        /\ SplitCompletes =>
              /\ lastEvent' = "seeked"
              /\ isProcessing /\ ~isProcessing'
              /\ Len(clips') = Len(clips) + 1
        /\ clips' # clips => (SplitCompletes \/ lastEvent' \in {"fileSelect", "loadedMetadata"})
    ]_vars

C12_Witness ==
    /\ Len(splitCalls) = 1
    /\ isProcessing
    /\ clips = splitCalls[1].clips
    /\ Len(clips) = 2
    /\ lastEvent = "scrub"

\* C13: while a split waits for its seek, any step other than the seek
\* completing leaves it waiting: the clip list is not changed, the processing
\* flag stays true, and the split and save buttons stay disabled.  So if the
\* seek never completes the split never resolves.
C13_PendingUntilSeeked ==
    [][(splitCalls # << >> /\ lastEvent' # "seeked") =>
        /\ splitCalls' = splitCalls
        /\ clips' = clips
        /\ isProcessing /\ isProcessing'
        /\ ~SplitEnabled' /\ ~SaveEnabled'
    ]_vars

C13_Witness ==
    /\ Len(splitCalls) = 1
    /\ isProcessing
    /\ video.seeking
    /\ lastEvent = "timeUpdate"
    /\ currentTime # splitCalls[1].currentTime
    /\ Len(clips) = 1

\* C14: when every started seek completes and every save timer fires, a
\* processing flag that a split or a save has set to true is false again later.
C14_ProcessingEnds == isProcessing ~> ~isProcessing

C14_Witness ==
    /\ ~isProcessing
    /\ lastEvent = "saved"
    /\ Len(clips) = 2
    /\ clips[1].thumbnail # NoThumbnail
    /\ currentTime = 0

\* C15: a split at the start or the end of the clip it finds is not rejected: it
\* starts, and when it completes the list has exactly one clip more, the found
\* clip {s, e} has become {s, t} and {t, e}, one of them of zero duration, and
\* the other clips are as before, also when some of them have the same bounds.
C15_BoundarySplit ==
    [][ /\ ( /\ lastEvent' = "split"
             /\ ~isProcessing
             /\ Len(clips) < ClipLimit(duration)
             /\ FirstContaining(clips, currentTime) # 0
             /\ LET c == clips[FirstContaining(clips, currentTime)]
                IN  currentTime = c.startTime \/ currentTime = c.endTime )
           => SplitStarts
        /\ SplitCompletes =>
              LET call == splitCalls[Len(splitCalls)]
                  i == call.target
                  t == call.currentTime
              IN  (t = clips[i].startTime \/ t = clips[i].endTime) =>
                    /\ Len(clips') = Len(clips) + 1
                    /\ Bounds(clips'[i]) = <<clips[i].startTime, t>>
                    /\ Bounds(clips'[i + 1]) = <<t, clips[i].endTime>>
                    /\ \/ clips'[i].startTime = clips'[i].endTime
                       \/ clips'[i + 1].startTime = clips'[i + 1].endTime
                    /\ \A j \in 1..Len(clips) :
                          /\ j < i => clips'[j] = clips[j]
                          /\ j > i => clips'[j + 1] = clips[j]
    ]_vars

C15_Witness ==
    /\ Len(clips) = 4
    /\ clips[1] = clips[2]
    /\ Bounds(clips[3]) = Bounds(clips[1])
    /\ clips[1].startTime = clips[1].endTime
    /\ lastEvent = "seeked"

\* C16 as claimed: whenever the split time t is the end of clip i and the start
\* of clip i+1, the split cuts clip i into {s_i, t} and {t, t} and leaves clip
\* i+1 as it was.
C16_Claimed ==
    [][SplitCompletes =>
        LET call == splitCalls[Len(splitCalls)]
            t == call.currentTime
        IN  \A i \in 1..(Len(clips) - 1) :
              (clips[i].endTime = t /\ clips[i + 1].startTime = t) =>
                /\ call.target = i
                /\ Bounds(clips'[i]) = <<clips[i].startTime, t>>
                /\ Bounds(clips'[i + 1]) = <<t, t>>
                /\ clips'[i + 2] = clips[i + 1]
    ]_vars

\* C16: when the split time t is the end of clip i and the start of clip i+1,
\* and no clip before clip i contains t, the split cuts clip i into {s_i, t} and
\* {t, t} and leaves clip i+1 as it was.
C16_TieBreak ==
    [][SplitCompletes =>
        LET call == splitCalls[Len(splitCalls)]
            t == call.currentTime
        IN  \A i \in 1..(Len(clips) - 1) :
              ( /\ clips[i].endTime = t /\ clips[i + 1].startTime = t
                /\ \A j \in 1..(i - 1) : ~Contains(clips[j], t) ) =>
                /\ call.target = i
                /\ Bounds(clips'[i]) = <<clips[i].startTime, t>>
                /\ Bounds(clips'[i + 1]) = <<t, t>>
                /\ clips'[i + 2] = clips[i + 1]
    ]_vars

C16_Witness ==
    /\ Len(clips) = 3
    /\ clips[1].startTime < clips[1].endTime
    /\ Bounds(clips[2]) = <<clips[1].endTime, clips[1].endTime>>
    /\ clips[3].startTime = clips[1].endTime
    /\ clips[3].startTime < clips[3].endTime
    /\ clips[3].thumbnail # clips[2].thumbnail
    /\ clips[1].thumbnail = clips[2].thumbnail
    /\ lastEvent = "seeked"

\* C17: from the selection of a file until the video's metadata has loaded the
\* clip list is empty, whatever else happens in between.
C17_EmptyUntilMetadata ==
    /\ (videoUrl # "" /\ ~video.haveMetadata) => clips = << >>
    /\ lastEvent = "fileSelect" => (videoUrl # "" /\ clips = << >>)

C17_Witness ==
    /\ videoUrl # ""
    /\ ~video.haveMetadata
    /\ clips = << >>
    /\ lastEvent = "saved"

\* C18: whenever a split waits for its thumbnail or a save waits for its timer,
\* the processing flag is true.
C18_FlagWhileOutstanding == (Len(splitCalls) + saveTimers > 0) => isProcessing

C18_Witness ==
    /\ saveTimers = 1
    /\ Len(splitCalls) = 0
    /\ isProcessing
    /\ Len(clips) = 2
    /\ lastEvent = "scrub"

\* C19: the time of the cut and the clip that is cut are those of the moment
\* split was pressed: a timeupdate while the capture is pending changes
\* currentTime only, and the completed split yields the clip list of that
\* moment with the targeted clip cut at that time.
C19_FixedAtRequest ==
    [][ /\ SplitStarts =>
              LET call == splitCalls'[Len(splitCalls')]
              IN  /\ call.currentTime = currentTime
                  /\ call.clips = clips
                  /\ call.target = FirstContaining(clips, currentTime)
        /\ (splitCalls # << >> /\ lastEvent' = "timeUpdate") =>
              /\ splitCalls' = splitCalls
              /\ clips' = clips
              /\ currentTime' = video.currentTime
        /\ SplitCompletes =>
              LET call == splitCalls[Len(splitCalls)]
                  i == call.target
                  t == call.currentTime
                  cs == call.clips
              IN  /\ Len(clips') = Len(cs) + 1
                  /\ Bounds(clips'[i]) = <<cs[i].startTime, t>>
                  /\ Bounds(clips'[i + 1]) = <<t, cs[i].endTime>>
                  /\ \A j \in 1..Len(cs) :
                        /\ j < i => clips'[j] = cs[j]
                        /\ j > i => clips'[j + 1] = cs[j]
    ]_vars

C19_Witness ==
    /\ lastEvent = "seeked"
    /\ video.onseeked = "resolved"
    /\ splitCalls = << >>
    /\ Len(clips) = 2
    /\ clips[1].endTime # currentTime
    /\ clips[1].thumbnail = currentTime
    /\ clips[1].thumbnail # clips[1].endTime

\* C20: the single full-span clip has no thumbnail; once a split has completed
\* (two or more clips) every clip has one; and every clip lies within the video:
\* 0 <= startTime <= endTime <= duration.
C20_Thumbnails ==
    /\ Len(clips) = 1 => clips[1] = [startTime |-> 0, endTime |-> duration,
                                     thumbnail |-> NoThumbnail]
    /\ Len(clips) >= 2 => \A i \in 1..Len(clips) : clips[i].thumbnail # NoThumbnail
    /\ \A i \in 1..Len(clips) :
          /\ 0 <= clips[i].startTime
          /\ clips[i].startTime <= clips[i].endTime
          /\ clips[i].endTime <= duration

C20_Witness ==
    /\ Len(clips) = 3
    /\ \A i \in 1..3 : clips[i].thumbnail # NoThumbnail
    /\ clips[1].thumbnail # clips[3].thumbnail
    /\ clips[2].startTime = clips[2].endTime
    /\ lastEvent = "timeUpdate"

====
